---- MODULE Spec2Model ----
(***************************************************************************)
(* Lifecycle and coordination core of TrguiNG's Tauri host:                *)
(*   src-tauri/src/main.rs  - main(), setup() and the startup task         *)
(*   src-tauri/src/tray.rs  - tray menu, toggle_main_window, exit,         *)
(*                            close_main                                   *)
(* The single-instance channel (mod ipc) is not part of the excerpt; its   *)
(* operations try_bind / listen / send / start / stop are modelled from    *)
(* the written contract (section 4.1 of the specification).                *)
(***************************************************************************)
EXTENDS Integers, Sequences, FiniteSets, TLC

\* Bounds of the model.
MaxProcs == 2
MaxClicks == 2
MaxSignals == 1
MaxQuits == 1

Procs == 1..MaxProcs
NoProc == 0

\* Argument batches a launch can carry (main.rs:51-60).
Batches == {<< >>, <<"movie.torrent">>}

VARIABLES
    proc,          \* OS process: "NotStarted", "Running", "Exited"
    role,          \* outcome of try_bind: "None", "Primary", "Secondary"
    owner,         \* process owning the well-known endpoint, NoProc if free
    listening,     \* Ipc.listening of each process
    helpFlag,      \* whether the invocation carried the help flag
    torrents,      \* Argument Batch of the invocation
    pc,            \* position of the startup task spawned by setup
    listenRes,     \* what listen() returned to the startup task: "none", "Ok", "Err"
    sendCalls,     \* number of send() calls made by the process
    sendResult,    \* result of the last send(): "none", "Ok", "Err"
    inbox,         \* batches received by the process, <<sender, batch>>
    pollerLock,    \* holder of PollerHandle's mutex
    listenerLock,  \* holder of ListenerHandle's mutex
    handlerReg,    \* the global "listener-start" handler is registered
    hTasks,        \* spawned listener-start handler tasks not yet run
    startCalls,    \* start() calls made by handler tasks
    win,           \* window "main": "None", "Created" (not visible), "Visible"
    winGen,        \* identity of the current (or last) main window
    trayLabel,     \* title of the "showhide" tray item
    tasks,         \* tasks spawned by tray events (hide and quit)
    pendingReq,    \* exit-requested events the frontend has not answered
    shutdownLog,   \* shutdown steps performed by quit tasks, in order
    clicks,        \* tray events so far
    signals        \* listener-start signals so far

vars == << proc, role, owner, listening, helpFlag, torrents, pc, listenRes, sendCalls,
           sendResult, inbox, pollerLock, listenerLock, handlerReg, hTasks,
           startCalls, win, winGen, trayLabel, tasks, pendingReq,
           shutdownLog, clicks, signals >>

Free == <<"none", 0>>
SetupTask == <<"setup", 0>>
QuitTask(i) == <<"quit", i>>
HandlerTask == <<"handler", 0>>

Running(p) == proc[p] = "Running"

TypeOK ==
    /\ proc \in [Procs -> {"NotStarted", "Running", "Exited"}]
    /\ role \in [Procs -> {"None", "Primary", "Secondary"}]
    /\ owner \in Procs \cup {NoProc}
    /\ listening \in [Procs -> BOOLEAN]
    /\ helpFlag \in [Procs -> BOOLEAN]
    /\ torrents \in [Procs -> Batches]
    /\ pc \in [Procs -> {"none", "lock_poller", "lock_listener", "await_listen",
                         "await_send", "finish", "done", "panicked"}]
    /\ listenRes \in [Procs -> {"none", "Ok", "Err"}]
    /\ sendCalls \in [Procs -> Nat]
    /\ sendResult \in [Procs -> {"none", "Ok", "Err"}]
    /\ inbox \in [Procs -> SUBSET (Procs \X Batches)]
    /\ win \in [Procs -> {"None", "Created", "Visible"}]
    /\ trayLabel \in [Procs -> {"Hide", "Show"}]
    /\ handlerReg \in [Procs -> BOOLEAN]
    /\ clicks \in 0..MaxClicks
    /\ signals \in 0..MaxSignals

Init ==
    /\ proc = [p \in Procs |-> "NotStarted"]
    /\ role = [p \in Procs |-> "None"]
    /\ owner = NoProc
    /\ listening = [p \in Procs |-> FALSE]
    /\ helpFlag = [p \in Procs |-> FALSE]
    /\ torrents = [p \in Procs |-> << >>]
    /\ pc = [p \in Procs |-> "none"]
    /\ listenRes = [p \in Procs |-> "none"]
    /\ sendCalls = [p \in Procs |-> 0]
    /\ sendResult = [p \in Procs |-> "none"]
    /\ inbox = [p \in Procs |-> {}]
    /\ pollerLock = [p \in Procs |-> Free]
    /\ listenerLock = [p \in Procs |-> Free]
    /\ handlerReg = [p \in Procs |-> FALSE]
    /\ hTasks = [p \in Procs |-> 0]
    /\ startCalls = [p \in Procs |-> 0]
    /\ win = [p \in Procs |-> "None"]
    /\ winGen = [p \in Procs |-> 0]
    /\ trayLabel = [p \in Procs |-> "Hide"]
    /\ tasks = [p \in Procs |-> << >>]
    /\ pendingReq = [p \in Procs |-> 0]
    /\ shutdownLog = [p \in Procs |-> << >>]
    /\ clicks = 0
    /\ signals = 0

(***************************************************************************)
(* Single-instance channel (mod ipc), from its contract.                   *)
(***************************************************************************)

\* try_bind: claims the endpoint when no live process owns it.
try_bind(p) == IF owner = NoProc THEN "Primary" ELSE "Secondary"

\* listen: only the owner of the endpoint can start accepting, and even
\* then accepting may fail (permissions, endpoint race).
listen(p) == IF owner = p THEN {"Ok", "Err"} ELSE {"Err"}

\* start: the channel accepts again, when the process owns the endpoint.
\* st is the channel as seen by p: [owner, listening].
start(p, st) == [st EXCEPT !.listening = IF st.owner = p THEN TRUE ELSE @]

\* stop: the channel stops accepting and releases the endpoint.
stop(p, st) ==
    [owner |-> IF st.owner = p THEN NoProc ELSE st.owner, listening |-> FALSE]

\* send: the process that receives the batch of p, NoProc when there is
\* none. A Primary handles its batch itself when it is listening; a
\* Secondary reaches whichever process owns the endpoint and is listening.
send_target(p) ==
    IF role[p] = "Primary"
    THEN IF listening[p] THEN p ELSE NoProc
    ELSE IF owner # NoProc /\ owner # p /\ listening[owner] THEN owner ELSE NoProc

\* send: a Primary's send to itself succeeds (a no-op when it is degraded);
\* a Secondary's send fails when nobody accepts.
send_result(p) ==
    IF role[p] = "Primary" \/ send_target(p) # NoProc THEN "Ok" ELSE "Err"

(***************************************************************************)
(* main.rs                                                                 *)
(***************************************************************************)

\* the run closure without prevent_exit: the process ends
run_ExitRequested_Exit(p, pr) == [pr EXCEPT ![p] = "Exited"]

\* the run closure, main.rs:120-125: closing the last window raises
\* RunEvent::ExitRequested, which is always answered by prevent_exit, so
\* the process (pr is the process table) keeps running.
run_ExitRequested(p, pr) == pr

\* tray.rs create_tray: the "showhide" item starts with the title "Hide".
create_tray == "Hide"

\* main() up to run(): try_bind, the tray, the configured main window (not
\* yet shown), then setup(): the help flag prints the usage and closes the
\* window; otherwise the startup task is spawned.
main(p, h, b) ==
    /\ proc[p] = "NotStarted"
    /\ \A q \in Procs : q < p => proc[q] # "NotStarted"
    /\ h => b = << >>
    /\ proc' = IF h THEN run_ExitRequested(p, [proc EXCEPT ![p] = "Running"])
                ELSE [proc EXCEPT ![p] = "Running"]
    /\ role' = [role EXCEPT ![p] = try_bind(p)]
    /\ owner' = IF try_bind(p) = "Primary" THEN p ELSE owner
    /\ helpFlag' = [helpFlag EXCEPT ![p] = h]
    /\ torrents' = [torrents EXCEPT ![p] = b]
    /\ trayLabel' = [trayLabel EXCEPT ![p] = create_tray]
    /\ winGen' = [winGen EXCEPT ![p] = 1]
    /\ win' = [win EXCEPT ![p] = IF h THEN "None" ELSE "Created"]
    /\ pc' = [pc EXCEPT ![p] = IF h THEN "none" ELSE "lock_poller"]
    /\ UNCHANGED << listening, sendCalls, listenRes, sendResult, inbox, pollerLock,
                    listenerLock, handlerReg, hTasks, startCalls, tasks,
                    pendingReq, shutdownLog, clicks, signals >>

\* startup task: poller_state.0.lock().await; set_app_handle
setup_lock_poller(p) ==
    /\ Running(p)
    /\ pc[p] = "lock_poller"
    /\ pollerLock[p] = Free
    /\ pollerLock' = [pollerLock EXCEPT ![p] = SetupTask]
    /\ pc' = [pc EXCEPT ![p] = "lock_listener"]
    /\ UNCHANGED << proc, role, owner, listening, helpFlag, torrents,
                    sendCalls, listenRes, sendResult, inbox, listenerLock, handlerReg,
                    hTasks, startCalls, win, winGen, trayLabel, tasks,
                    pendingReq, shutdownLog, clicks, signals >>

\* startup task: listener_mutex.lock().await, then listen() is called and
\* the task is suspended on it.
setup_lock_listener(p) ==
    /\ Running(p)
    /\ pc[p] = "lock_listener"
    /\ listenerLock[p] = Free
    /\ listenerLock' = [listenerLock EXCEPT ![p] = SetupTask]
    /\ pc' = [pc EXCEPT ![p] = "await_listen"]
    /\ UNCHANGED << proc, role, owner, listening, helpFlag, torrents,
                    sendCalls, listenRes, sendResult, inbox, pollerLock, handlerReg,
                    hTasks, startCalls, win, winGen, trayLabel, tasks,
                    pendingReq, shutdownLog, clicks, signals >>

\* after_listen with the stop() after a failed listen left out
after_listen_NoStop(p, r) ==
    IF r = "Ok"
    THEN [owner |-> owner, listening |-> TRUE]
    ELSE start(p, [owner |-> owner, listening |-> listening[p]])

\* what the startup task does to the channel once listen() returned r
after_listen(p, r) ==
    IF r = "Ok"
    THEN [owner |-> owner, listening |-> TRUE]
    ELSE stop(p, start(p, [owner |-> owner, listening |-> listening[p]]))

\* startup task: listen() returns; on Err start(); stop(); then send() is
\* called and the task is suspended on it.
setup_listen_done(p) ==
    /\ Running(p)
    /\ pc[p] = "await_listen"
    /\ \E r \in listen(p) :
         /\ listenRes' = [listenRes EXCEPT ![p] = r]
         /\ owner' = after_listen(p, r).owner
         /\ listening' = [listening EXCEPT ![p] = after_listen(p, r).listening]
    /\ sendCalls' = [sendCalls EXCEPT ![p] = @ + 1]
    /\ pc' = [pc EXCEPT ![p] = "await_send"]
    /\ UNCHANGED << proc, role, helpFlag, torrents, sendResult, inbox,
                    pollerLock, listenerLock, handlerReg, hTasks, startCalls,
                    win, winGen, trayLabel, tasks, pendingReq,
                    shutdownLog, clicks, signals >>

\* after_send with a failed send tried again
after_send_Retry(p, r) == IF r = "Err" THEN "await_send" ELSE "finish"

\* where the startup task goes after send() returned r
after_send(p, r) == "finish"

\* startup task: send() returns; an error is printed and nothing else.
setup_send_done(p) ==
    /\ Running(p)
    /\ pc[p] = "await_send"
    /\ sendResult' = [sendResult EXCEPT ![p] = send_result(p)]
    /\ inbox' = IF send_target(p) = NoProc THEN inbox
                ELSE [inbox EXCEPT ![send_target(p)] = @ \cup {<<p, torrents[p]>>}]
    /\ pc' = [pc EXCEPT ![p] = after_send(p, send_result(p))]
    /\ sendCalls' = IF after_send(p, send_result(p)) = "await_send"
                    THEN [sendCalls EXCEPT ![p] = @ + 1] ELSE sendCalls
    /\ UNCHANGED << proc, role, owner, listening, helpFlag, torrents, listenRes,
                    pollerLock, listenerLock, handlerReg, hTasks, startCalls,
                    win, winGen, trayLabel, tasks, pendingReq,
                    shutdownLog, clicks, signals >>

\* a startup task that ends without giving the listener lock back
setup_finish_KeepsLock(p) ==
    /\ Running(p)
    /\ pc[p] = "finish"
    /\ pollerLock' = [pollerLock EXCEPT ![p] = Free]
    /\ IF win[p] = "None"
       THEN /\ pc' = [pc EXCEPT ![p] = "panicked"]
            /\ UNCHANGED << proc, handlerReg, win, pendingReq >>
       ELSE /\ pc' = [pc EXCEPT ![p] = "done"]
            /\ IF listening[p]
               THEN /\ handlerReg' = [handlerReg EXCEPT ![p] = TRUE]
                    /\ win' = [win EXCEPT ![p] = "Visible"]
                    /\ UNCHANGED << proc, pendingReq >>
               ELSE /\ win' = [win EXCEPT ![p] = "None"]
                    /\ pendingReq' = [pendingReq EXCEPT ![p] = 0]
                    /\ proc' = run_ExitRequested(p, proc)
                    /\ UNCHANGED handlerReg
    /\ UNCHANGED << role, owner, listening, helpFlag, torrents, listenerLock,
                    sendCalls, listenRes, sendResult, inbox, hTasks, startCalls, winGen,
                    trayLabel, tasks, shutdownLog, clicks, signals >>

\* startup task, main.rs:80-94: get_window("main").unwrap() panics when the
\* window is gone; a listening process drops the listener lock, registers
\* the listener-start handler and shows the window; any other closes it.
\* The task ends, which releases the locks it still holds.
setup_finish(p) ==
    /\ Running(p)
    /\ pc[p] = "finish"
    /\ pollerLock' = [pollerLock EXCEPT ![p] = Free]
    /\ listenerLock' = [listenerLock EXCEPT ![p] = Free]
    /\ IF win[p] = "None"
       THEN /\ pc' = [pc EXCEPT ![p] = "panicked"]
            /\ UNCHANGED << proc, handlerReg, win, pendingReq >>
       ELSE /\ pc' = [pc EXCEPT ![p] = "done"]
            /\ IF listening[p]
               THEN /\ handlerReg' = [handlerReg EXCEPT ![p] = TRUE]
                    /\ win' = [win EXCEPT ![p] = "Visible"]
                    /\ UNCHANGED << proc, pendingReq >>
               ELSE /\ win' = [win EXCEPT ![p] = "None"]
                    /\ pendingReq' = [pendingReq EXCEPT ![p] = 0]
                    /\ proc' = run_ExitRequested(p, proc)
                    /\ UNCHANGED handlerReg
    /\ UNCHANGED << role, owner, listening, helpFlag, torrents,
                    sendCalls, listenRes, sendResult, inbox, hTasks, startCalls, winGen,
                    trayLabel, tasks, shutdownLog, clicks, signals >>

\* a "listener-start" that spawns a task whether or not a handler is
\* registered
listener_start_signal_Unregistered(p) ==
    /\ Running(p)
    /\ signals < MaxSignals
    /\ signals' = signals + 1
    /\ hTasks' = [hTasks EXCEPT ![p] = @ + 1]
    /\ UNCHANGED << proc, role, owner, listening, helpFlag, torrents, pc,
                    sendCalls, listenRes, sendResult, inbox, pollerLock, listenerLock,
                    handlerReg, startCalls, win, winGen, trayLabel, tasks,
                    pendingReq, shutdownLog, clicks >>

\* the frontend emits the global "listener-start" event; the registered
\* handler spawns a task.
listener_start_signal(p) ==
    /\ Running(p)
    /\ signals < MaxSignals
    /\ signals' = signals + 1
    /\ hTasks' = IF handlerReg[p] THEN [hTasks EXCEPT ![p] = @ + 1] ELSE hTasks
    /\ UNCHANGED << proc, role, owner, listening, helpFlag, torrents, pc,
                    sendCalls, listenRes, sendResult, inbox, pollerLock, listenerLock,
                    handlerReg, startCalls, win, winGen, trayLabel, tasks,
                    pendingReq, shutdownLog, clicks >>

\* handler task: listener_mutex.lock().await
listener_start_lock(p) ==
    /\ Running(p)
    /\ hTasks[p] > 0
    /\ listenerLock[p] = Free
    /\ listenerLock' = [listenerLock EXCEPT ![p] = HandlerTask]
    /\ UNCHANGED << proc, role, owner, listening, helpFlag, torrents, pc,
                    sendCalls, listenRes, sendResult, inbox, pollerLock,
                    handlerReg, hTasks, startCalls, win, winGen, trayLabel, tasks,
                    pendingReq, shutdownLog, clicks, signals >>

\* handler task with the lock: listener.start(); the guard is dropped at
\* the end of the task.
listener_start_task(p) ==
    /\ Running(p)
    /\ hTasks[p] > 0
    /\ listenerLock[p] = HandlerTask
    /\ listenerLock' = [listenerLock EXCEPT ![p] = Free]
    /\ hTasks' = [hTasks EXCEPT ![p] = @ - 1]
    /\ startCalls' = [startCalls EXCEPT ![p] = @ + 1]
    /\ owner' = start(p, [owner |-> owner, listening |-> listening[p]]).owner
    /\ listening' = [listening EXCEPT ![p] =
                       start(p, [owner |-> owner, listening |-> listening[p]]).listening]
    /\ UNCHANGED << proc, role, helpFlag, torrents, pc, sendCalls, listenRes, sendResult,
                    inbox, pollerLock, handlerReg, win, winGen,
                    trayLabel, tasks, pendingReq, shutdownLog,
                    clicks, signals >>

(***************************************************************************)
(* tray.rs                                                                 *)
(***************************************************************************)

TrayEvents == {"LeftClick", "showhide", "quit"}

NewTask(k, g) ==
    [kind |-> k, pc |-> "start", gen |-> g, req |-> FALSE,
     tx |-> FALSE, fired |-> 0, acked |-> FALSE]

\* the window a Window handle of generation g refers to still exists
WindowAlive(p, g) == win[p] # "None" /\ winGen[p] = g

\* a toggle that builds a window whether or not one exists
toggle_main_window_AlwaysBuild(p) ==
    /\ win' = [win EXCEPT ![p] = "Visible"]
    /\ winGen' = [winGen EXCEPT ![p] = @ + 1]
    /\ pendingReq' = [pendingReq EXCEPT ![p] = 0]
    /\ trayLabel' = [trayLabel EXCEPT ![p] = "Hide"]
    /\ UNCHANGED tasks

\* toggle_main_window: with a window, spawn the hide task on that window;
\* without one, build a new (visible) window and set the title to "Hide".
toggle_main_window(p) ==
    IF win[p] # "None"
    THEN /\ tasks' = [tasks EXCEPT ![p] = Append(@, NewTask("hide", winGen[p]))]
         /\ UNCHANGED << win, winGen, pendingReq, trayLabel >>
    ELSE /\ win' = [win EXCEPT ![p] = "Visible"]
         /\ winGen' = [winGen EXCEPT ![p] = @ + 1]
         /\ pendingReq' = [pendingReq EXCEPT ![p] = 0]
         /\ trayLabel' = [trayLabel EXCEPT ![p] = "Hide"]
         /\ UNCHANGED tasks

\* exit: spawn the quit task.
exit(p) ==
    /\ tasks' = [tasks EXCEPT ![p] = Append(@, NewTask("quit", 0))]
    /\ UNCHANGED << win, winGen, pendingReq, trayLabel >>

on_tray_event(p, ev) ==
    /\ Running(p)
    /\ clicks < MaxClicks
    /\ clicks' = clicks + 1
    /\ IF ev = "quit" THEN exit(p) ELSE toggle_main_window(p)
    /\ UNCHANGED << proc, role, owner, listening, helpFlag, torrents, pc,
                    sendCalls, listenRes, sendResult, inbox, pollerLock, listenerLock,
                    handlerReg, hTasks, startCalls, shutdownLog,
                    signals >>

\* the spawned task starts. The hide task enters close_main with the window
\* of the tray event; the quit task looks the window up and enters
\* close_main when there is one. close_main registers the one-shot
\* "frontend-done" listener, emits "exit-requested" and awaits rx.
task_start(p, i) ==
    /\ Running(p)
    /\ i \in DOMAIN tasks[p]
    /\ tasks[p][i].pc = "start"
    /\ LET t == tasks[p][i]
           g == IF t.kind = "quit" THEN winGen[p] ELSE t.gen
       IN IF t.kind = "quit" /\ win[p] = "None"
          THEN /\ tasks' = [tasks EXCEPT ![p][i].pc = "lock"]
               /\ UNCHANGED pendingReq
          ELSE /\ tasks' = [tasks EXCEPT ![p][i].pc = "rx_await", ![p][i].gen = g,
                                          ![p][i].tx = TRUE,
                                          ![p][i].req = WindowAlive(p, g)]
               /\ pendingReq' = IF WindowAlive(p, g)
                                THEN [pendingReq EXCEPT ![p] = @ + 1]
                                ELSE pendingReq
    /\ UNCHANGED << proc, role, owner, listening, helpFlag, torrents, pc,
                    sendCalls, listenRes, sendResult, inbox, pollerLock, listenerLock,
                    handlerReg, hTasks, startCalls, win, winGen, trayLabel, shutdownLog, clicks, signals >>

\* a listener that fires on every "frontend-done" and leaves the sender
frontend_done_listener_NoTake(p, t) ==
    IF t.pc = "rx_await" /\ WindowAlive(p, t.gen)
    THEN [t EXCEPT !.fired = @ + 1, !.acked = TRUE]
    ELSE t

\* the listener of close_main: the first "frontend-done" takes the sender
\* out of the shared Option (tx) and fires it; with the sender gone the
\* event does nothing. fired counts the signals sent on the channel.
frontend_done_listener(p, t) ==
    IF t.pc = "rx_await" /\ WindowAlive(p, t.gen) /\ t.tx
    THEN [t EXCEPT !.tx = FALSE, !.fired = @ + 1, !.acked = TRUE]
    ELSE t

\* the presentation layer answers one "exit-requested" with "frontend-done";
\* every listener registered on the window receives the event.
frontend_done(p) ==
    /\ Running(p)
    /\ win[p] # "None"
    /\ pendingReq[p] > 0
    /\ pendingReq' = [pendingReq EXCEPT ![p] = @ - 1]
    /\ tasks' = [tasks EXCEPT ![p] =
                   [i \in DOMAIN @ |-> frontend_done_listener(p, @[i])]]
    /\ UNCHANGED << proc, role, owner, listening, helpFlag, torrents, pc,
                    sendCalls, listenRes, sendResult, inbox, pollerLock, listenerLock,
                    handlerReg, hTasks, startCalls, win, winGen, trayLabel, shutdownLog, clicks, signals >>

\* rx_await that does not wait for the sender
rx_await_NoWait(t) == TRUE

\* rx_await that never returns
rx_await_Never(t) == FALSE

\* rx.await of close_main returns once the sender has fired.
rx_await(t) == t.acked

\* close_main after rx.await: window.close(). Closing the last window
\* raises RunEvent::ExitRequested. The hide task goes on to set the title,
\* the quit task to lock the listener.
close_main(p, i) ==
    /\ Running(p)
    /\ i \in DOMAIN tasks[p]
    /\ tasks[p][i].pc = "rx_await"
    /\ rx_await(tasks[p][i])
    /\ tasks' = [tasks EXCEPT ![p][i].pc =
                   IF tasks[p][i].kind = "hide" THEN "set_title" ELSE "lock"]
    /\ IF WindowAlive(p, tasks[p][i].gen)
       THEN /\ win' = [win EXCEPT ![p] = "None"]
            /\ pendingReq' = [pendingReq EXCEPT ![p] = 0]
            /\ proc' = run_ExitRequested(p, proc)
       ELSE UNCHANGED << proc, win, pendingReq >>
    /\ shutdownLog' = IF tasks[p][i].kind = "quit"
                      THEN [shutdownLog EXCEPT ![p] = Append(@, "close_main")]
                      ELSE shutdownLog
    /\ UNCHANGED << role, owner, listening, helpFlag, torrents, pc,
                    sendCalls, listenRes, sendResult, inbox, pollerLock, listenerLock,
                    handlerReg, hTasks, startCalls, winGen, trayLabel,
                    clicks, signals >>

\* a hide task that also stops the listener when it sets the title
hide_set_title_StopsListener(p, i) ==
    /\ Running(p)
    /\ i \in DOMAIN tasks[p]
    /\ tasks[p][i].pc = "set_title"
    /\ trayLabel' = [trayLabel EXCEPT ![p] = "Show"]
    /\ tasks' = [tasks EXCEPT ![p][i].pc = "done"]
    /\ owner' = stop(p, [owner |-> owner, listening |-> listening[p]]).owner
    /\ listening' = [listening EXCEPT ![p] =
                       stop(p, [owner |-> owner, listening |-> listening[p]]).listening]
    /\ UNCHANGED << proc, role, helpFlag, torrents, pc,
                    sendCalls, listenRes, sendResult, inbox, pollerLock, listenerLock,
                    handlerReg, hTasks, startCalls, win, winGen, pendingReq, shutdownLog, clicks, signals >>

\* hide task after close_main: set_title("Show").
hide_set_title(p, i) ==
    /\ Running(p)
    /\ i \in DOMAIN tasks[p]
    /\ tasks[p][i].pc = "set_title"
    /\ trayLabel' = [trayLabel EXCEPT ![p] = "Show"]
    /\ tasks' = [tasks EXCEPT ![p][i].pc = "done"]
    /\ UNCHANGED << proc, role, owner, listening, helpFlag, torrents, pc,
                    sendCalls, listenRes, sendResult, inbox, pollerLock, listenerLock,
                    handlerReg, hTasks, startCalls, win, winGen, pendingReq, shutdownLog, clicks, signals >>

\* a quit task that drops the guard right after stop()
exit_stop_ReleasesLock(p, i) ==
    /\ Running(p)
    /\ i \in DOMAIN tasks[p]
    /\ tasks[p][i].pc = "lock"
    /\ listenerLock[p] = Free
    /\ owner' = stop(p, [owner |-> owner, listening |-> listening[p]]).owner
    /\ listening' = [listening EXCEPT ![p] =
                       stop(p, [owner |-> owner, listening |-> listening[p]]).listening]
    /\ shutdownLog' = [shutdownLog EXCEPT ![p] = Append(@, "stop")]
    /\ tasks' = [tasks EXCEPT ![p][i].pc = "app_exit"]
    /\ UNCHANGED << proc, role, helpFlag, torrents, pc, sendCalls, listenRes, sendResult,
                    inbox, pollerLock, listenerLock, handlerReg, hTasks, startCalls, win,
                    winGen, trayLabel, pendingReq, clicks, signals >>

\* a quit task that calls stop() without waiting for the mutex
exit_stop_NoLock(p, i) ==
    /\ Running(p)
    /\ i \in DOMAIN tasks[p]
    /\ tasks[p][i].pc = "lock"
    /\ listenerLock' = [listenerLock EXCEPT ![p] = QuitTask(i)]
    /\ owner' = stop(p, [owner |-> owner, listening |-> listening[p]]).owner
    /\ listening' = [listening EXCEPT ![p] =
                       stop(p, [owner |-> owner, listening |-> listening[p]]).listening]
    /\ shutdownLog' = [shutdownLog EXCEPT ![p] = Append(@, "stop")]
    /\ tasks' = [tasks EXCEPT ![p][i].pc = "app_exit"]
    /\ UNCHANGED << proc, role, helpFlag, torrents, pc, sendCalls, listenRes, sendResult,
                    inbox, pollerLock, handlerReg, hTasks, startCalls, win,
                    winGen, trayLabel, pendingReq, clicks, signals >>

\* quit task: listener_state.0.lock().await; listener.stop()
exit_stop(p, i) ==
    /\ Running(p)
    /\ i \in DOMAIN tasks[p]
    /\ tasks[p][i].pc = "lock"
    /\ listenerLock[p] = Free
    /\ listenerLock' = [listenerLock EXCEPT ![p] = QuitTask(i)]
    /\ owner' = stop(p, [owner |-> owner, listening |-> listening[p]]).owner
    /\ listening' = [listening EXCEPT ![p] =
                       stop(p, [owner |-> owner, listening |-> listening[p]]).listening]
    /\ shutdownLog' = [shutdownLog EXCEPT ![p] = Append(@, "stop")]
    /\ tasks' = [tasks EXCEPT ![p][i].pc = "app_exit"]
    /\ UNCHANGED << proc, role, helpFlag, torrents, pc, sendCalls, listenRes, sendResult,
                    inbox, pollerLock, handlerReg, hTasks, startCalls, win,
                    winGen, trayLabel, pendingReq, clicks, signals >>

\* quit task: app.exit(0). The process ends; the operating system takes
\* back whatever the process still owned.
exit_app_exit(p, i) ==
    /\ Running(p)
    /\ i \in DOMAIN tasks[p]
    /\ tasks[p][i].pc = "app_exit"
    /\ proc' = [proc EXCEPT ![p] = "Exited"]
    /\ owner' = IF owner = p THEN NoProc ELSE owner
    /\ shutdownLog' = [shutdownLog EXCEPT ![p] = Append(@, "exit")]
    /\ tasks' = [tasks EXCEPT ![p][i].pc = "exited"]
    /\ UNCHANGED << role, listening, helpFlag, torrents, pc, sendCalls,
                    listenRes, sendResult, inbox, pollerLock, listenerLock, handlerReg,
                    hTasks, startCalls, win, winGen, trayLabel, pendingReq, clicks, signals >>

\* The tray of one process, with every tray event: only the first process
\* is launched.
First == 1

NextTray ==
    \/ \E h \in BOOLEAN, b \in Batches : main(First, h, b)
    \/ setup_lock_poller(First)
    \/ setup_lock_listener(First)
    \/ setup_listen_done(First)
    \/ setup_send_done(First)
    \/ setup_finish(First)
    \/ listener_start_signal(First)
    \/ listener_start_lock(First)
    \/ listener_start_task(First)
    \/ \E ev \in TrayEvents : on_tray_event(First, ev)
    \/ \E i \in DOMAIN tasks[First] : task_start(First, i)
    \/ frontend_done(First)
    \/ \E i \in DOMAIN tasks[First] : close_main(First, i)
    \/ \E i \in DOMAIN tasks[First] : hide_set_title(First, i)
    \/ \E i \in DOMAIN tasks[First] : exit_stop(First, i)
    \/ \E i \in DOMAIN tasks[First] : exit_app_exit(First, i)

SpecTray == Init /\ [][NextTray]_vars

\* The tasks the runtime has spawned are scheduled fairly: a task that can
\* take its next step takes it. The steps that acquire the listener mutex
\* are strongly fair: the mutex queues its waiters in order. The tray
\* events, the "listener-start" signals and the "frontend-done" of the
\* presentation layer are not forced.
TaskIds == 1..MaxClicks

Fairness ==
    /\ WF_vars(setup_lock_poller(First))
    /\ SF_vars(setup_lock_listener(First))
    /\ WF_vars(setup_listen_done(First))
    /\ WF_vars(setup_send_done(First))
    /\ WF_vars(setup_finish(First))
    /\ SF_vars(listener_start_lock(First))
    /\ WF_vars(listener_start_task(First))
    /\ \A i \in TaskIds :
          /\ WF_vars(task_start(First, i))
          /\ WF_vars(close_main(First, i))
          /\ WF_vars(hide_set_title(First, i))
          /\ SF_vars(exit_stop(First, i))
          /\ WF_vars(exit_app_exit(First, i))

SpecTrayFair == Init /\ [][NextTray]_vars /\ Fairness

\* Several launches against one endpoint; of the tray, the quit item.
Next ==
    \/ \E p \in Procs, h \in BOOLEAN, b \in Batches : main(p, h, b)
    \/ \E p \in Procs : setup_lock_poller(p)
    \/ \E p \in Procs : setup_lock_listener(p)
    \/ \E p \in Procs : setup_listen_done(p)
    \/ \E p \in Procs : setup_send_done(p)
    \/ \E p \in Procs : setup_finish(p)
    \/ \E p \in Procs : clicks < MaxQuits /\ on_tray_event(p, "quit")
    \/ \E p \in Procs : \E i \in DOMAIN tasks[p] : task_start(p, i)
    \/ \E p \in Procs : frontend_done(p)
    \/ \E p \in Procs : \E i \in DOMAIN tasks[p] : close_main(p, i)
    \/ \E p \in Procs : \E i \in DOMAIN tasks[p] : exit_stop(p, i)
    \/ \E p \in Procs : \E i \in DOMAIN tasks[p] : exit_app_exit(p, i)

Spec == Init /\ [][Next]_vars

(***************************************************************************)
(* Claims                                                                  *)
(***************************************************************************)

PastSend(p) == pc[p] \in {"finish", "done", "panicked"}

\* C1: at most one live process holds the Primary role at any time, also
\* after a Primary whose listen failed has run start(); stop() and stays
\* alive.
C1_AtMostOneLivePrimary ==
    Cardinality({p \in Procs : Running(p) /\ role[p] = "Primary"}) <= 1

\* every process was launched without the help flag and is past its send
AllSettled ==
    \A p \in Procs : proc[p] # "NotStarted" /\ ~helpFlag[p] /\ PastSend(p)

Delivered(p) == \E q \in Procs : <<p, torrents[p]>> \in inbox[q]

C3_SecondaryExits ==
    \A p \in Procs :
        role[p] = "Secondary" /\ pc[p] = "done" => proc[p] = "Exited"

\* C9: no task holds the listener lock or the poller lock while suspended
\* at an await that another actor completes: the startup task of a
\* Secondary awaiting its send to the Primary, or a task of the tray
\* awaiting the frontend's acknowledgement.
C9_NoLockAcrossAwait ==
    \A p \in Procs :
        /\ (Running(p) /\ pc[p] = "await_send" /\ role[p] = "Secondary") =>
               listenerLock[p] # SetupTask /\ pollerLock[p] # SetupTask
        /\ \A i \in DOMAIN tasks[p] :
               (Running(p) /\ tasks[p][i].pc = "rx_await") =>
                   listenerLock[p] # QuitTask(i)

\* C10: a batch is processed only by a Primary that has reached Listening;
\* send is called once per process, after the process's own listen attempt,
\* and never again: a Secondary whose send failed has its batch in no inbox.
C10_NoDeliveryBeforeListening ==
    /\ \A q \in Procs : inbox[q] # {} => role[q] = "Primary" /\ listenRes[q] = "Ok"
    /\ \A p \in Procs :
           /\ sendCalls[p] <= 1
           /\ sendCalls[p] = 1 <=> listenRes[p] # "none"
           /\ sendResult[p] # "none" => sendCalls[p] = 1
           /\ (role[p] = "Secondary" /\ sendResult[p] = "Err") => ~Delivered(p)
           /\ (role[p] = "Secondary" /\ sendResult[p] = "Ok") => Delivered(p)

\* C10 witness: a Secondary sent while the Primary had bound but not yet
\* completed listen; the send failed, the Secondary finished without a
\* second send and the batch is nowhere.
C10_Witness ==
    \E p, q \in Procs :
        /\ role[p] = "Secondary" /\ pc[p] = "done" /\ torrents[p] # << >>
        /\ sendResult[p] = "Err" /\ sendCalls[p] = 1
        /\ owner = q /\ role[q] = "Primary" /\ listenRes[q] = "none"
        /\ inbox[q] = {}

\* C4: once a Primary's listen has returned an error, no main window is
\* ever shown and no task that takes the listener lock finds the listener
\* listening.
C4_DegradedNeverShown ==
    \A p \in Procs :
        (role[p] = "Primary" /\ listenRes[p] = "Err") =>
            /\ win[p] # "Visible"
            /\ listenerLock[p] = Free => ~listening[p]

\* a task that went through close_main and is past its window.close()
Closed(t) == t.gen > 0 /\ t.pc \notin {"start", "rx_await"}

\* C5: every close attempt that has performed its window.close() had
\* received frontend-done on its own listener before; and a window that
\* close_main destroys is destroyed by an acknowledged attempt.
C5_CloseAfterAck ==
    \A p \in Procs : \A i \in DOMAIN tasks[p] :
        Closed(tasks[p][i]) => tasks[p][i].acked

\* C5 witness: a hide attempt was acknowledged and has destroyed the window
\* it was started on.
C5_Witness ==
    \E p \in Procs : \E i \in DOMAIN tasks[p] :
        /\ tasks[p][i].kind = "hide" /\ tasks[p][i].pc = "set_title"
        /\ tasks[p][i].acked /\ tasks[p][i].req
        /\ tasks[p][i].gen = winGen[p] /\ win[p] = "None"

\* no startup task and no tray task of the process is under way
Quiet(p) ==
    /\ Running(p)
    /\ pc[p] \in {"none", "done", "panicked"}
    /\ \A i \in DOMAIN tasks[p] : tasks[p][i].pc = "done"

\* C6: after every visibility-changing operation the "showhide" item reads
\* "Hide" exactly when a main window exists and is visible.
C6_LabelMatchesWindow ==
    \A p \in Procs :
        Quiet(p) => (trayLabel[p] = "Hide" <=> win[p] = "Visible")

\* the quit task i of p has ended the process after its own close_main (if
\* it met a window) was acknowledged and after listener.stop()
QuitCompleted(p, i) ==
    /\ tasks[p][i].kind = "quit" /\ tasks[p][i].pc = "exited"
    /\ tasks[p][i].gen > 0 => tasks[p][i].acked
    /\ listenerLock[p] = QuitTask(i)
    /\ ~listening[p] /\ owner # p
    /\ \E k \in DOMAIN shutdownLog[p] :
           /\ k < Len(shutdownLog[p])
           /\ shutdownLog[p][k] = "stop"
           /\ shutdownLog[p][Len(shutdownLog[p])] = "exit"

\* a handshake in the Requested state: exit-requested was emitted to the
\* window and no frontend-done has reached the attempt's listener
Requested(t) == t.pc = "rx_await" /\ t.req /\ ~t.acked

\* C7 as stated: the process exits only through the quit task, after its
\* close_main was acknowledged and stop() was called, and never while any
\* handshake of the process is in the Requested state.
C7_NoExitMidHandshake ==
    \A p \in Procs :
        proc[p] = "Exited" =>
            /\ \E i \in DOMAIN tasks[p] : QuitCompleted(p, i)
            /\ \A j \in DOMAIN tasks[p] : ~Requested(tasks[p][j])

\* The part of C7 that holds: the process exits only through a quit task,
\* after that task's own close_main (if a window existed) was acknowledged
\* and after listener.stop(); closing the last window never ends the
\* process.
C7_ExitOnlyThroughQuit ==
    \A p \in Procs :
        proc[p] = "Exited" => \E i \in DOMAIN tasks[p] : QuitCompleted(p, i)

\* The case that breaks C7: the quit task has ended the process after its
\* acknowledged close_main while a hide handshake was still Requested.
C7_ExitWithRequestedHide ==
    \E p \in Procs :
        /\ proc[p] = "Exited"
        /\ \E i \in DOMAIN tasks[p] :
               QuitCompleted(p, i) /\ tasks[p][i].gen > 0 /\ tasks[p][i].acked
        /\ \E j \in DOMAIN tasks[p] :
               tasks[p][j].kind = "hide" /\ Requested(tasks[p][j])

\* C8: a tray quit from Active performs, each exactly once and in this
\* order, the close_main handshake, listener stop(), the poller's stop and
\* the process exit.
C8_ShutdownOrder ==
    \A p \in Procs :
        (proc[p] = "Exited" /\ handlerReg[p] /\ shutdownLog[p][1] = "close_main") =>
            shutdownLog[p] = << "close_main", "stop", "poller_stop", "exit" >>

\* C11: a process launched with the help flag makes no listen and no send,
\* registers no listener-start handler, has no startup task and takes no
\* part in the arbitration of the endpoint: it never owns it.
C11_HelpOutsideLifecycle ==
    \A p \in Procs :
        helpFlag[p] =>
            /\ pc[p] = "none" /\ listenRes[p] = "none" /\ sendCalls[p] = 0
            /\ ~handlerReg[p] /\ ~listening[p]
            /\ owner # p /\ role[p] # "Primary"

\* a step of a tray hide or show of process p: the tray event that is no
\* quit, or a step of one of its hide tasks
ToggleStep(p) ==
    \/ /\ clicks' = clicks + 1
       /\ \/ Len(tasks'[p]) = Len(tasks[p])
          \/ tasks'[p][Len(tasks'[p])].kind = "hide"
    \/ \E i \in DOMAIN tasks[p] :
          tasks[p][i].kind = "hide" /\ tasks'[p][i].pc # tasks[p][i].pc

\* C12: no step of a tray hide or show changes the poller lock or the
\* listener: its lock, its listening flag, the endpoint, its handler
\* registration and the start() calls stay as they were.
C12_ToggleLeavesListener ==
    [][\A p \in Procs :
          ToggleStep(p) =>
             UNCHANGED << pollerLock, listenerLock, listening, owner, listenRes,
                          handlerReg, hTasks, startCalls, sendCalls >>]_vars

\* a hide and a later show have both completed on a listening process
C12_Witness ==
    /\ listening[First] /\ win[First] = "Visible" /\ winGen[First] = 2
    /\ \E i \in DOMAIN tasks[First] :
          tasks[First][i].kind = "hide" /\ tasks[First][i].pc = "done"

\* a "frontend-done" of the presentation layer of process p
FrontendDoneStep(p) ==
    pendingReq'[p] = pendingReq[p] - 1 /\ win'[p] = win[p] /\ win[p] # "None"

\* C13: on the one-shot channel of a close attempt at most one signal is
\* ever sent: the first "frontend-done" takes the sender and fires it, and a
\* "frontend-done" that reaches an attempt whose sender is gone changes
\* nothing of that attempt.
C13_AtMostOneAck ==
    /\ [](\A p \in Procs : \A i \in DOMAIN tasks[p] :
             /\ tasks[p][i].fired <= 1
             /\ tasks[p][i].acked <=> tasks[p][i].fired = 1
             /\ tasks[p][i].tx => tasks[p][i].fired = 0)
    /\ [][\A p \in Procs : \A i \in DOMAIN tasks[p] :
             FrontendDoneStep(p) /\ ~tasks[p][i].tx => tasks'[p][i] = tasks[p][i]]_vars

\* two attempts on one window, two "frontend-done" events: the second
\* event reached an attempt that had fired already
C13_Witness ==
    /\ win[First] # "None" /\ pendingReq[First] = 0
    /\ Len(tasks[First]) = 2
    /\ \A i \in DOMAIN tasks[First] :
          /\ tasks[First][i].pc = "rx_await" /\ tasks[First][i].req
          /\ tasks[First][i].fired = 1

IsTask(i, k) == i \in DOMAIN tasks[First] /\ tasks[First][i].kind = k

\* the "exit-requested" of attempt i is unanswered
Unanswered(i) == i \in DOMAIN tasks[First] /\ Requested(tasks[First][i])

\* the window hide attempt i was spawned on is gone
WindowGone(i) ==
    i \in DOMAIN tasks[First] /\ ~WindowAlive(First, tasks[First][i].gen)

\* the presentation layer answers every "exit-requested"
FrontendAnswers == \A i \in TaskIds : Unanswered(i) ~> ~Unanswered(i)

\* hide attempt i has gone through its window.close(), or the process is
\* over
AttemptClosed(i) ==
    \/ proc[First] = "Exited"
    \/ i \in DOMAIN tasks[First] /\ tasks[First][i].pc \in {"set_title", "done"}

\* C14: there is no timeout. An attempt whose sender has not fired stays
\* at rx.await: it has not closed the window and (quit) not reached stop()
\* or exit. With fair scheduling and a presentation layer that answers
\* every "exit-requested", every close attempt eventually goes through
\* its window.close() and every tray quit eventually exits the process.
C14_EveryAttemptCloses ==
    /\ [](\A i \in DOMAIN tasks[First] :
             tasks[First][i].tx => tasks[First][i].pc = "rx_await")
    /\ FrontendAnswers =>
          \A i \in TaskIds :
             /\ IsTask(i, "hide") ~> AttemptClosed(i)
             /\ IsTask(i, "quit") ~> proc[First] = "Exited"

\* what holds of the attempts under the same premises: the window of every
\* hide attempt is eventually gone, whoever destroyed it, and every tray
\* quit eventually exits the process.
C14_NoTimeout ==
    /\ [](\A i \in DOMAIN tasks[First] :
             tasks[First][i].tx => tasks[First][i].pc = "rx_await")
    /\ FrontendAnswers =>
          \A i \in TaskIds :
             /\ IsTask(i, "hide") ~> WindowGone(i)
             /\ IsTask(i, "quit") ~> proc[First] = "Exited"

\* the same conclusion without the premise on the presentation layer
C14_ExitsUnanswered ==
    \A i \in TaskIds : IsTask(i, "quit") ~> proc[First] = "Exited"

\* a quit attempt that was answered and went on to exit, and a hide
\* attempt still suspended at rx.await with its sender unfired
C14_Witness ==
    /\ proc[First] = "Exited"
    /\ \E i, j \in DOMAIN tasks[First] :
          /\ tasks[First][i].kind = "quit" /\ tasks[First][i].fired = 1
          /\ tasks[First][i].pc = "exited"
          /\ tasks[First][j].kind = "hide" /\ tasks[First][j].tx
          /\ tasks[First][j].pc = "rx_await"

\* the startup task of p is between its lock of the listener and its end
SetupInSection(p) == pc[p] \in {"await_listen", "await_send", "finish"}

\* quit task i of p has called stop() and not yet ended the process
QuitInSection(p, i) ==
    Running(p) /\ i \in DOMAIN tasks[p] /\ tasks[p][i].pc = "app_exit"

\* this step logs a stop() of the quit task of p
StopStep(p) ==
    /\ Len(shutdownLog'[p]) = Len(shutdownLog[p]) + 1
    /\ shutdownLog'[p][Len(shutdownLog'[p])] = "stop"

\* C15: every listen, send, start and stop on the channel is made by the
\* task that holds the listener mutex, the mutex passes from task to task
\* only through Free, so no two of these operations overlap, and the
\* listening flag changes only in a step of the holder.
C15_UnderListenerLock ==
    /\ [](\A p \in Procs :
             /\ SetupInSection(p) => listenerLock[p] = SetupTask
             /\ \A i \in DOMAIN tasks[p] :
                   QuitInSection(p, i) => listenerLock[p] = QuitTask(i))
    /\ [][\A p \in Procs :
             /\ (\/ listenRes'[p] # listenRes[p]
                 \/ sendCalls'[p] # sendCalls[p]
                 \/ sendResult'[p] # sendResult[p])
                   => listenerLock[p] = SetupTask /\ listenerLock'[p] = SetupTask
             /\ startCalls'[p] # startCalls[p] => listenerLock[p] = HandlerTask
             /\ StopStep(p) => listenerLock[p] = Free /\ listenerLock'[p] # Free
             /\ listening'[p] # listening[p]
                   => listenerLock[p] # Free \/ listenerLock'[p] # Free
             /\ listenerLock'[p] # listenerLock[p]
                   => listenerLock[p] = Free \/ listenerLock'[p] = Free]_vars

\* the startup task listened, a handler task called start() and a quit task
\* called stop(), one after the other
C15_Witness ==
    /\ listenRes[First] = "Ok" /\ startCalls[First] = 1
    /\ \E i \in DOMAIN tasks[First] : QuitInSection(First, i)

\* C16: the label is updated before the window operation is complete: no
\* state has the window destroyed by a hide and the label still "Hide",
\* and no state has a window built by a show and the label still "Show".
C16_LabelBeforeWindow ==
    \A p \in Procs :
        /\ ( /\ win[p] = "None"
             /\ \E i \in DOMAIN tasks[p] :
                   /\ tasks[p][i].kind = "hide" /\ tasks[p][i].gen = winGen[p]
                   /\ tasks[p][i].pc \in {"set_title", "done"} )
              => trayLabel[p] = "Show"
        /\ (win[p] # "None" /\ winGen[p] > 1) => trayLabel[p] = "Hide"

\* the handler is registered only by a startup task that found its
\* listener listening; without a handler no task is spawned and start()
\* is never called
HandlerOnlyWhenListening(p) ==
    /\ handlerReg[p] => listenRes[p] = "Ok" /\ pc[p] = "done" /\ role[p] = "Primary"
    /\ ~handlerReg[p] => hTasks[p] = 0 /\ startCalls[p] = 0

\* C17: the listener-start handler is registered only on the Active path,
\* after the startup task has released the listener lock and before the
\* window is shown; a process without handler never calls start() on a
\* signal; with the handler every signal results in exactly one start()
\* call under the listener lock: when the process is over, no signal is
\* left whose task has not made its call.
C17_EverySignalStarts ==
    \A p \in Procs :
        /\ HandlerOnlyWhenListening(p)
        /\ proc[p] = "Exited" => hTasks[p] = 0

\* the same, with the last part as far as it holds: every signal spawns
\* one task, every start() call is the call of one task that holds the
\* listener lock, and under fair scheduling every spawned task makes its
\* call unless the process exits first.
C17_HandlerOnlyOnActive ==
    /\ [](\A p \in Procs : HandlerOnlyWhenListening(p))
    /\ [][\A p \in Procs :
             /\ (handlerReg'[p] /\ ~handlerReg[p])
                   => /\ listening[p] /\ listenerLock[p] = SetupTask
                      /\ listenerLock'[p] = Free /\ win'[p] = "Visible"
             /\ startCalls'[p] # startCalls[p]
                   => /\ startCalls'[p] = startCalls[p] + 1
                      /\ hTasks'[p] = hTasks[p] - 1
                      /\ listenerLock[p] = HandlerTask]_vars
    /\ [][(signals' # signals /\ handlerReg[First])
             => hTasks'[First] = hTasks[First] + 1]_vars
    /\ hTasks[First] > 0 ~> (hTasks[First] = 0 \/ proc[First] = "Exited")

\* a signal reached the registered handler and its task has called start()
C17_Witness ==
    /\ handlerReg[First] /\ signals = 1
    /\ startCalls[First] = 1 /\ hTasks[First] = 0

\* C18: a main window is built only in a step that starts with no main
\* window of the process, in every interleaving of tray events and tasks;
\* so the window that exists is the only one, that of the latest build.
C18_BuildOnlyWithoutWindow ==
    [][\A p \in Procs :
          winGen'[p] # winGen[p] =>
             /\ win[p] = "None"
             /\ winGen'[p] = winGen[p] + 1]_vars

\* the tray has built a second window while a hide task spawned on the
\* first one is still in flight
C18_Witness ==
    /\ win[First] = "Visible" /\ winGen[First] = 2
    /\ \E i \in DOMAIN tasks[First] :
          /\ tasks[First][i].kind = "hide" /\ tasks[First][i].gen = 1
          /\ tasks[First][i].pc \in {"start", "rx_await"}

\* a quit task of p has called stop()
QuitStopped(p) ==
    \E i \in DOMAIN tasks[p] : tasks[p][i].pc \in {"app_exit", "exited"}

\* C19: once the quit task has called stop(), the listener is not started
\* again: from stop() on the listener lock stays with the quit task, no
\* start() call is made and the listener is not listening.
C19_NoStartAfterStop ==
    [][\A p \in Procs :
          QuitStopped(p) =>
             /\ startCalls'[p] = startCalls[p]
             /\ listenerLock'[p] = listenerLock[p] /\ listenerLock[p] # Free
             /\ ~listening[p] /\ ~listening'[p]]_vars

\* the quit task has called stop() while a handler task spawned by a
\* listener-start signal still waits for the lock
C19_Witness ==
    /\ hTasks[First] > 0
    /\ \E i \in DOMAIN tasks[First] : QuitInSection(First, i)

\* a task of p waits for the listener lock
Waiting(p) ==
    \/ pc[p] = "lock_listener"
    \/ hTasks[p] > 0 /\ listenerLock[p] # HandlerTask
    \/ \E i \in DOMAIN tasks[p] : tasks[p][i].pc = "lock"

\* the holder of a lock of p is not itself waiting for a lock: the startup
\* task takes the poller lock before the listener lock, the other tasks
\* take the listener lock only
NoCyclicWait(p) ==
    /\ pollerLock[p] = SetupTask =>
          pc[p] \in {"lock_listener", "await_listen", "await_send", "finish"}
    /\ listenerLock[p] = SetupTask =>
          pc[p] \in {"await_listen", "await_send", "finish"} /\ pollerLock[p] = SetupTask
    /\ listenerLock[p] = HandlerTask => hTasks[p] > 0
    /\ \A i \in TaskIds :
          listenerLock[p] = QuitTask(i) =>
             i \in DOMAIN tasks[p] /\ tasks[p][i].pc \in {"app_exit", "exited"}

\* C20: the lock usage has no cyclic wait, and every task that requests
\* the listener lock acquires it: no process ends with a task of its own
\* still waiting for the lock.
C20_EveryRequestGranted ==
    \A p \in Procs :
        /\ NoCyclicWait(p)
        /\ proc[p] = "Exited" => ~Waiting(p)

\* the same, with the second part as far as it holds: under fair
\* scheduling, with listen and send returning, the tasks that wait for the
\* listener lock acquire it unless the process exits first. A task stops
\* waiting only by acquiring the lock, so from a state with waiting tasks
\* a state without any is reached only when each of them has acquired it.
C20_LockProgress ==
    /\ [](\A p \in Procs : NoCyclicWait(p))
    /\ Waiting(First) ~> (~Waiting(First) \/ proc[First] = "Exited")

\* a quit task got the listener lock after waiting for the startup task,
\* which held it over listen and send
C20_Witness ==
    /\ pc[First] = "done" /\ listenRes[First] # "none"
    /\ \E i \in DOMAIN tasks[First] :
          /\ listenerLock[First] = QuitTask(i)
          /\ shutdownLog[First] = <<"stop">>

====
